---- MODULE Spec2Model ----
(***************************************************************************)
(* Model of organize_by_extension (src/Python.py).                         *)
(*                                                                         *)
(* File and directory names are sequences of one-character strings, a path *)
(* is the sequence of names below base_dir, and a file's content is its    *)
(* sequence of bytes.  The filesystem is the pair (files, dirs): files     *)
(* maps every existing file path to its content, dirs is the set of        *)
(* existing directory paths.  One run is os.walk's top-down traversal with *)
(* the loop body of lines 40-121 applied to one file per step.             *)
(***************************************************************************)
EXTENDS Integers, Sequences, FiniteSets, TLC

VARIABLES
    files,   \* path -> content, the regular files below base_dir
    dirs,    \* the directories below base_dir (base_dir itself is << >>)
    stack,   \* os.walk: the directories still to visit, top first
    root,    \* os.walk: the directory being visited
    todo,    \* the entries of `files` (line 36) not yet iterated by line 40
    subs,    \* `dirs` of line 36 after the filter of line 38
    pc,      \* "walk" | "files" | "done" | "crashed"
    out,     \* the lines printed so far, one record per terminal action
    run,     \* which call of organize_by_extension this is (1, 2, ...)
    tree0    \* the files as they were before the first run

vars == <<files, dirs, stack, root, todo, subs, pc, out, run, tree0>>

----------------------------------------------------------------------------
(* Bounds of the model. *)

\* the walked tree starts with at most this many files
MaxFiles == 3
\* organize_by_extension is called at most this many times in a row
MaxRuns == 2

----------------------------------------------------------------------------
(* Strings. *)

LowerCase == <<"a","b","c","d","e","f","g","h","i","j","k","l","m",
               "n","o","p","q","r","s","t","u","v","w","x","y","z">>
UpperCase == <<"A","B","C","D","E","F","G","H","I","J","K","L","M",
               "N","O","P","Q","R","S","T","U","V","W","X","Y","Z">>
Digits == <<"0","1","2","3","4","5","6","7","8","9">>

IndexIn(c, alphabet) ==
    IF \E i \in DOMAIN alphabet : alphabet[i] = c
    THEN CHOOSE i \in DOMAIN alphabet : alphabet[i] = c
    ELSE 0

\* str.upper()
upper(s) ==
    [i \in DOMAIN s |->
        IF IndexIn(s[i], LowerCase) # 0 THEN UpperCase[IndexIn(s[i], LowerCase)]
        ELSE s[i]]

\* str.lower()
lower(s) ==
    [i \in DOMAIN s |->
        IF IndexIn(s[i], UpperCase) # 0 THEN LowerCase[IndexIn(s[i], UpperCase)]
        ELSE s[i]]

\* str.startswith()
startswith(s, prefix) ==
    /\ Len(s) >= Len(prefix)
    /\ SubSeq(s, 1, Len(prefix)) = prefix

\* the decimal digits of a count, as the f-strings of lines 81, 83, 107 format it
RECURSIVE str(_)
str(n) ==
    IF n < 10 THEN <<Digits[n + 1]>>
    ELSE str(n \div 10) \o <<Digits[(n % 10) + 1]>>

\* the position of the last "." of a name, 0 when it has none
rfind_dot(s) ==
    IF \E i \in DOMAIN s : s[i] = "."
    THEN CHOOSE i \in DOMAIN s : s[i] = "." /\ \A j \in DOMAIN s : s[j] = "." => j <= i
    ELSE 0

\* os.path.splitext: split at the last ".", unless only dots precede it
splitext(s) ==
    LET dotIndex == rfind_dot(s) IN
    IF dotIndex > 0 /\ \E k \in 1..(dotIndex - 1) : s[k] # "."
    THEN <<SubSeq(s, 1, dotIndex - 1), SubSeq(s, dotIndex, Len(s))>>
    ELSE <<s, << >> >>

\* the sentinel of line 50
UNKNOWN == <<"U","N","K","N","O","W","N">>

\* the prefix of lines 38, 57, 59
ExtensionPrefix == <<"E","x","t","e","n","s","i","o","n","_">>

\* 'Extension_EXISTING' of line 59
ExtensionExisting == ExtensionPrefix \o <<"E","X","I","S","T","I","N","G">>

----------------------------------------------------------------------------
(* Paths and the filesystem. *)

\* os.path.abspath(base_dir): every path of the model is relative to it
base_dir == << >>

\* os.path.join
join(dir, name) == Append(dir, name)

dirname(path) == SubSeq(path, 1, Len(path) - 1)
basename(path) == path[Len(path)]

\* os.path.isdir in the place of os.path.exists: files are not seen
isdir(fs, ds, path) == path \in ds

\* os.path.exists
exists(fs, ds, path) == path \in DOMAIN fs \/ path \in ds

\* os.path.getsize
getsize(fs, path) == Len(fs[path])

\* hash_file: the SHA-1 digest, taken to identify the bytes it was computed from
hash_file(fs, path) == fs[path]

\* os.makedirs(path, exist_ok=True): the directory and every missing ancestor
makedirs(ds, path) == ds \cup {SubSeq(path, 1, k) : k \in 0..Len(path)}

\* move as a copy: the source stays
copy(fs, src, dst) ==
    [p \in DOMAIN fs \cup {dst} |-> IF p = dst THEN fs[src] ELSE fs[p]]

\* shutil.move(src, dst) onto a path that is no directory: a rename, which
\* replaces whatever file dst names
move(fs, src, dst) ==
    [p \in (DOMAIN fs \ {src}) \cup {dst} |-> IF p = dst THEN fs[src] ELSE fs[p]]

\* os.remove
remove(fs, path) == [p \in DOMAIN fs \ {path} |-> fs[p]]

----------------------------------------------------------------------------
(* The body of the loop over `files`, lines 40-121. *)

\* line 42
is_hidden(filename) == startswith(filename, <<".">>)

\* lines 48-50: the uppercased suffix, or the sentinel when splitext finds none
extension(filename) ==
    LET name_parts == splitext(filename) IN
    IF name_parts[2] # << >> THEN upper(Tail(name_parts[2])) ELSE UNKNOWN

\* lines 42-43 and 53-54: the files the loop passes over
is_skipped(filename) == is_hidden(filename) \/ extension(filename) = UNKNOWN

\* line 57
dest_dir_of(ext) == join(base_dir, ExtensionPrefix \o ext)

\* line 59 without its 'Extension_EXISTING' component
existing_dir_in_bucket(ext) == dest_dir_of(ext)

\* line 59
existing_dir_of(ext) == join(join(base_dir, ExtensionExisting), ExtensionPrefix \o ext)

\* lines 81, 83, 107: f"{base_name}_{count}.{ext.lower()}"
numbered_name(base_name, count, ext) ==
    base_name \o <<"_">> \o str(count) \o <<".">> \o lower(ext)

\* lines 80-82 without the loop: the count stays at its initial value
first_count(fs, ds, dest_dir, base_name, ext, count) == count

\* lines 80-82: the first count whose numbered name is free in dest_dir
RECURSIVE free_count(_, _, _, _, _, _)
free_count(fs, ds, dest_dir, base_name, ext, count) ==
    IF exists(fs, ds, join(dest_dir, numbered_name(base_name, count, ext)))
    THEN free_count(fs, ds, dest_dir, base_name, ext, count + 1)
    ELSE count

\* line 79
size_differs(fs, full_path, dest_file) == getsize(fs, full_path) # getsize(fs, dest_file)

\* line 115 never finding the hashes equal
never_equal(fs, full_path, numbered_file) == FALSE

\* line 90 comparing sizes where it compares hashes
same_size_only(fs, full_path, dest_file) ==
    getsize(fs, full_path) = getsize(fs, dest_file)

\* line 90
is_exact_duplicate(fs, full_path, dest_file) ==
    hash_file(fs, full_path) = hash_file(fs, dest_file)

\* line 116
is_conflict_duplicate(fs, full_path, numbered_file) ==
    hash_file(fs, full_path) = hash_file(fs, numbered_file)

\* lines 105-121: scan the numbered quarantine names from `count` on; the
\* result is the name the scan stops at and whether it stops on a free name
\* (move there) or on a file with the hash of full_path (remove full_path)
RECURSIVE conflict_scan(_, _, _, _, _, _, _)
conflict_scan(fs, ds, existing_dir, base_name, ext, full_path, count) ==
    LET numbered_file == join(existing_dir, numbered_name(base_name, count, ext)) IN
    IF ~exists(fs, ds, numbered_file)
    THEN [free |-> TRUE, path |-> numbered_file]
    ELSE IF is_conflict_duplicate(fs, full_path, numbered_file)
    THEN [free |-> FALSE, path |-> numbered_file]
    ELSE conflict_scan(fs, ds, existing_dir, base_name, ext, full_path, count + 1)

\* one printed line: what was done to src (dst is << >> when nothing was moved)
Line(kind, src, dst) == [kind |-> kind, src |-> src, dst |-> dst]

Effect(fs, ds, printed) == [files |-> fs, dirs |-> ds, printed |-> printed]

\* lines 95-121, case 4: same name, same size, different content
quarantine(fs, ds, full_path, filename, base_name, ext) ==
    LET existing_dir == existing_dir_of(ext)
        ds2 == makedirs(ds, existing_dir)
        existing_dest == join(existing_dir, filename)
        scan == conflict_scan(fs, ds2, existing_dir, base_name, ext, full_path, 1)
    IN  IF ~exists(fs, ds2, existing_dest)
        THEN Effect(move(fs, full_path, existing_dest), ds2,
                    <<Line("quarantined", full_path, existing_dest)>>)
        ELSE IF scan.free
        THEN Effect(move(fs, full_path, scan.path), ds2,
                    <<Line("quarantined", full_path, scan.path)>>)
        ELSE Effect(remove(fs, full_path), ds2,
                    <<Line("quarantine_removed", full_path, << >>)>>)

\* lines 66 and 76: the files hash_file is called on before the cases are
\* told apart: full_path always, dest_file as soon as it exists
hashed_files(fs, ds, rt, filename) ==
    LET full_path == join(rt, filename)
        dest_dir == dest_dir_of(extension(filename))
        dest_file == join(dest_dir, filename)
    IN  IF is_skipped(filename) THEN {}
        ELSE IF ~exists(fs, makedirs(ds, dest_dir), dest_file) THEN {full_path}
        ELSE {full_path, dest_file}

\* lines 40-121 for one entry of `files`
organize_file(fs, ds, rt, filename) ==
    LET full_path == join(rt, filename)
        base_name == splitext(filename)[1]
        ext == extension(filename)
        dest_dir == dest_dir_of(ext)
        dest_file == join(dest_dir, filename)
        ds1 == makedirs(ds, dest_dir)
        count == free_count(fs, ds1, dest_dir, base_name, ext, 1)
        new_dest == join(dest_dir, numbered_name(base_name, count, ext))
    IN  IF is_skipped(filename)
        THEN Effect(fs, ds, << >>)
        ELSE IF ~exists(fs, ds1, dest_file)
        THEN Effect(move(fs, full_path, dest_file), ds1,
                    <<Line("moved", full_path, dest_file)>>)
        ELSE IF size_differs(fs, full_path, dest_file)
        THEN Effect(move(fs, full_path, new_dest), ds1,
                    <<Line("renamed", full_path, new_dest)>>)
        ELSE IF is_exact_duplicate(fs, full_path, dest_file)
        THEN Effect(remove(fs, full_path), ds1,
                    <<Line("removed", full_path, << >>)>>)
        ELSE quarantine(fs, ds1, full_path, filename, base_name, ext)

----------------------------------------------------------------------------
(* The trees a run starts from. *)

a_txt     == <<"a",".","t","x","t">>
a_TXT     == <<"a",".","T","X","T">>
a_1_txt   == <<"a","_","1",".","t","x","t">>
a_unknown == <<"a",".","u","n","k","n","o","w","n">>
a_dot     == <<"a",".">>
hidden    == <<".","h",".","t","x","t">>
noext     == <<"a">>

sub == <<"s","u","b">>
tmp == <<"t","m","p">>
Extension_OLD == ExtensionPrefix \o <<"O","L","D">>
Extension_TXT == ExtensionPrefix \o <<"T","X","T">>

X  == <<"X">>
Y  == <<"Y">>
Z  == <<"Z">>
XX == <<"X","X">>

\* the places a file of the walked tree may start at, each with the contents
\* it may start with
Menu ==
    ( <<a_txt>>          :> {X, XX} )       @@
    ( <<sub, a_txt>>     :> {X, Y, XX} )    @@
    ( <<tmp, a_txt>>     :> {X, Y, Z, XX} ) @@
    ( <<a_TXT>>          :> {X} )           @@
    ( <<sub, a_TXT>>     :> {XX} )          @@
    ( <<sub, a_1_txt>>   :> {X, XX} )       @@
    ( <<a_unknown>>      :> {X} )           @@
    ( <<sub, a_unknown>> :> {X, Y, XX} )    @@
    ( <<tmp, a_unknown>> :> {Z} )           @@
    ( <<a_dot>>          :> {X} )           @@
    ( <<sub, a_dot>>     :> {X} )           @@
    ( <<hidden>>         :> {X} )           @@
    ( <<noext>>          :> {X} )

\* what earlier runs may have left: nothing, or a bucket and a quarantine for
\* a.txt together with an Extension_ directory deeper in the tree
Organized ==
    ( <<Extension_TXT, a_txt>>                      :> X ) @@
    ( <<ExtensionExisting, Extension_TXT, a_txt>>   :> Y ) @@
    ( <<ExtensionExisting, Extension_TXT, a_1_txt>> :> Z ) @@
    ( <<sub, Extension_OLD, a_txt>>                 :> X )

Leftovers == { << >>, Organized }

\* every directory on the way to a file
Ancestors(paths) == UNION { {SubSeq(p, 1, k) : k \in 0..(Len(p) - 1)} : p \in paths }

\* base_dir is a directory holding one of the trees above, or names nothing
\* that can be listed (no directory exists at it)
Init ==
    /\ \/ \E S \in {s \in SUBSET DOMAIN Menu : Cardinality(s) <= MaxFiles} :
          \E walked \in [S -> {X, Y, Z, XX}] :
          \E left \in Leftovers :
              /\ \A p \in S : walked[p] \in Menu[p]
              /\ files = walked @@ left
              /\ dirs = {base_dir} \cup Ancestors(S \cup DOMAIN left)
       \/ /\ files = << >>
          /\ dirs = {}
    /\ tree0 = files
    /\ stack = <<base_dir>>
    /\ root = base_dir
    /\ todo = {}
    /\ subs = {}
    /\ pc = "walk"
    /\ out = << >>
    /\ run = 1

----------------------------------------------------------------------------
(* os.walk(base_dir, topdown=True), line 36, and the loop it drives. *)

\* line 38 dropped: every subdirectory is kept
keep_every_dir(d) == TRUE

\* line 38: the subdirectories the walk keeps
keep_dir(d) == ~startswith(d, ExtensionPrefix)

\* the names os.scandir(top) yields, files and directories apart
listed_files(fs, top) == {basename(p) : p \in {q \in DOMAIN fs : dirname(q) = top}}
listed_dirs(ds, top) == {basename(d) : d \in {e \in ds : e # << >> /\ dirname(e) = top}}

\* every order a directory listing may come in
Orders(S) == {o \in [1..Cardinality(S) -> S] : \A i, j \in DOMAIN o : o[i] = o[j] => i = j}

\* os.walk yields the next directory: its files, and its subdirectories
\* filtered by line 38
ListDir ==
    /\ pc = "walk"
    /\ stack # << >>
    /\ Head(stack) \in dirs
    /\ root' = Head(stack)
    /\ stack' = Tail(stack)
    /\ todo' = listed_files(files, Head(stack))
    /\ subs' = {d \in listed_dirs(dirs, Head(stack)) : keep_dir(d)}
    /\ pc' = "files"
    /\ UNCHANGED <<files, dirs, out, run, tree0>>

\* os.walk cannot list the next directory (it does not exist): with no
\* onerror handler given at line 36 the OSError is dropped and the directory
\* is passed over without a yield
ListDirError ==
    /\ pc = "walk"
    /\ stack # << >>
    /\ Head(stack) \notin dirs
    /\ stack' = Tail(stack)
    /\ UNCHANGED <<files, dirs, root, todo, subs, pc, out, run, tree0>>

\* one iteration of the loop of line 40, on any entry not yet iterated
ProcessFile ==
    /\ pc = "files"
    /\ \E filename \in todo :
        LET done == organize_file(files, dirs, root, filename) IN
        /\ files' = done.files
        /\ dirs' = done.dirs
        /\ out' = out \o done.printed
        /\ todo' = todo \ {filename}
    /\ UNCHANGED <<stack, root, subs, pc, run, tree0>>

\* an OSError out of lines 65-66 (the file cannot be read): nothing catches
\* it, so it ends the call after line 62 has made the bucket directory
ProcessFileError ==
    /\ pc = "files"
    /\ \E filename \in todo :
        /\ join(root, filename) \in hashed_files(files, dirs, root, filename)
        /\ dirs' = makedirs(dirs, dest_dir_of(extension(filename)))
        /\ out' = Append(out, Line("error", join(root, filename), << >>))
    /\ pc' = "crashed"
    /\ UNCHANGED <<files, stack, root, todo, subs, run, tree0>>

\* the loop of line 40 is over: os.walk queues the kept subdirectories, in
\* listing order, ahead of the directories already waiting
Descend ==
    /\ pc = "files"
    /\ todo = {}
    /\ \E order \in Orders(subs) :
        stack' = [i \in DOMAIN order |-> join(root, order[i])] \o stack
    /\ subs' = {}
    /\ pc' = "walk"
    /\ UNCHANGED <<files, dirs, root, todo, out, run, tree0>>

\* os.walk is exhausted: line 123
Finish ==
    /\ pc = "walk"
    /\ stack = << >>
    /\ pc' = "done"
    /\ out' = Append(out, Line("done", << >>, << >>))
    /\ UNCHANGED <<files, dirs, stack, root, todo, subs, run, tree0>>

\* organize_by_extension is called again on the tree the last call left
RunAgain ==
    /\ pc = "done"
    /\ run < MaxRuns
    /\ run' = run + 1
    /\ stack' = <<base_dir>>
    /\ root' = base_dir
    /\ pc' = "walk"
    /\ UNCHANGED <<files, dirs, todo, subs, out, tree0>>

Next ==
    \/ ListDir
    \/ ListDirError
    \/ ProcessFile
    \/ ProcessFileError
    \/ Descend
    \/ Finish
    \/ RunAgain

Spec == Init /\ [][Next]_vars

----------------------------------------------------------------------------
(* Vocabulary of the properties. *)

\* the path lies inside a directory whose name starts with 'Extension_'
InExtensionDir(path) ==
    \E k \in 1..(Len(path) - 1) : startswith(path[k], ExtensionPrefix)

\* the files of the initial tree the walk can reach
Walked0 == {p \in DOMAIN tree0 : ~InExtensionDir(p)}

\* what follows the last "." of a name
Suffix(filename) == SubSeq(filename, rfind_dot(filename) + 1, Len(filename))

StartsWithDot(filename) == filename[1] = "."
HasNoDot(filename) == rfind_dot(filename) = 0
EndsWithDot(filename) == rfind_dot(filename) = Len(filename)

\* a non-hidden name with a non-empty extension
Qualifies(filename) ==
    ~StartsWithDot(filename) /\ ~HasNoDot(filename) /\ ~EndsWithDot(filename)

\* Extension_<EXT> and Extension_EXISTING/Extension_<EXT> of a name
Bucket(filename) == <<ExtensionPrefix \o upper(Suffix(filename))>>
Quarantine(filename) == <<ExtensionExisting, ExtensionPrefix \o upper(Suffix(filename))>>

\* the printed lines about one source file
LinesOf(path) == {i \in DOMAIN out : out[i].src = path}
Printed(kind) == \E i \in DOMAIN out : out[i].kind = kind
Removals == {"removed", "quarantine_removed"}

\* how many paths hold a content
Copies(fs, content) == Cardinality({q \in DOMAIN fs : fs[q] = content})

\* the walked files of the initial tree with one filename
SameName(filename) == {p \in Walked0 : basename(p) = filename}

\* before the run, the bucket and the quarantine of the name's extension hold
\* no file
NothingOrganized(filename) ==
    \A p \in DOMAIN tree0 : dirname(p) \notin {Bucket(filename), Quarantine(filename)}

\* the first call has returned normally
FirstRunDone == pc = "done" /\ run = 1

----------------------------------------------------------------------------
(* C1 *)

\* a step that deletes path: the path goes and no path comes
Deletes(path) ==
    /\ path \in DOMAIN files
    /\ path \notin DOMAIN files'
    /\ DOMAIN files' \subseteq DOMAIN files

DeletionIsJustified ==
    \A p \in DOMAIN files :
        Deletes(p) =>
            \E q \in DOMAIN files \ {p} :
                /\ files[q] = files[p]
                /\ dirname(q) \in {dest_dir_of(extension(basename(p))),
                                   existing_dir_of(extension(basename(p)))}

EveryContentKept ==
    \A p \in DOMAIN tree0 : \E q \in DOMAIN files : files[q] = tree0[p]

\* C1: a source file is deleted only in a step at whose start a file with the
\* same content lies in the bucket directory or in the quarantine directory of
\* its extension, and so every content of the initial tree is at one path or
\* more in every state of every run, whatever the processing order.
C1_NoFileIsLost == [][DeletionIsJustified]_vars /\ []EveryContentKept

\* a completed run that removed an exact duplicate of a bucket file and a
\* duplicate of a quarantined file
C1_Witness ==
    /\ FirstRunDone
    /\ Printed("removed")
    /\ Printed("quarantine_removed")

----------------------------------------------------------------------------
(* C2 *)

TerminalStateOf(path) ==
    LET filename == basename(path) IN
    /\ path \notin DOMAIN files
    /\ Cardinality(LinesOf(path)) = 1
    /\ \A i \in LinesOf(path) :
        \/ /\ out[i].kind = "moved"
           /\ out[i].dst = join(Bucket(filename), filename)
           /\ out[i].dst \in DOMAIN files
        \/ /\ out[i].kind = "renamed"
           /\ dirname(out[i].dst) = Bucket(filename)
           /\ basename(out[i].dst) # filename
           /\ out[i].dst \in DOMAIN files
        \/ out[i].kind \in Removals
        \/ /\ out[i].kind = "quarantined"
           /\ dirname(out[i].dst) = Quarantine(filename)
           /\ out[i].dst \in DOMAIN files

\* C2: when a run completes, every non-hidden file that was outside the
\* Extension_ directories and has a non-empty extension, whatever its letters,
\* has left its original location and is in exactly one terminal state: moved
\* to its bucket under its name, moved there under a numbered name, removed as
\* a duplicate, or moved to the quarantine of its extension.
C2_EveryFileIsOrganized ==
    FirstRunDone =>
        \A p \in Walked0 : Qualifies(basename(p)) => TerminalStateOf(p)

----------------------------------------------------------------------------
(* C3 *)

\* C3: a file whose name starts with ".", has no "." or ends with "." is
\* never moved, renamed or deleted, nothing is printed about it, and no
\* bucket (for a name ending with ".": the directory 'Extension_') is made
\* for it.
C3_SkippedFilesStayInPlace ==
    \A p \in Walked0 :
        LET filename == basename(p) IN
        (StartsWithDot(filename) \/ HasNoDot(filename) \/ EndsWithDot(filename)) =>
            /\ p \in DOMAIN files
            /\ files[p] = tree0[p]
            /\ LinesOf(p) = {}
            /\ <<ExtensionPrefix>> \notin dirs

----------------------------------------------------------------------------
(* C4 *)

WalkStaysOutside ==
    /\ \A i \in DOMAIN stack : ~InExtensionDir(join(stack[i], <<"x">>))
    /\ pc = "files" => ~InExtensionDir(join(root, <<"x">>))

ExtensionFilesFrozen ==
    \A p \in DOMAIN files :
        InExtensionDir(p) => p \in DOMAIN files' /\ files'[p] = files[p]

\* C4: no directory the walk visits or has queued lies in or is a directory
\* whose name starts with 'Extension_', at any depth, and a file that is
\* inside such a directory keeps its path and its content in every later step.
C4_ExtensionDirsUntouched == []WalkStaysOutside /\ [][ExtensionFilesFrozen]_vars

\* a completed run that visited sub, which holds Extension_OLD, and that
\* moved a file into a bucket that already held one
C4_Witness ==
    /\ FirstRunDone
    /\ <<sub, Extension_OLD, a_txt>> \in DOMAIN files
    /\ <<Extension_TXT, a_txt>> \in DOMAIN tree0
    /\ LinesOf(<<sub, a_txt>>) # {}
    /\ Printed("renamed")

----------------------------------------------------------------------------
(* C5 *)

RunOver == pc \in {"done", "crashed"}

\* C5: an I/O error on one file stops the work on that file only: when the
\* run is over, every other file the loop does not pass over has been
\* processed and has left its original location.
C5_ErrorsAreIsolated ==
    RunOver =>
        \A p \in Walked0 :
            (~is_skipped(basename(p)) /\ ~\E i \in LinesOf(p) : out[i].kind = "error")
                => p \notin DOMAIN files

----------------------------------------------------------------------------
(* C6 *)

\* C6: a call made on the tree a completed call left moves, renames and
\* deletes no file and makes no directory: every step of a second or later
\* call leaves the filesystem as it is.
C6_SecondRunChangesNothing ==
    [][run >= 2 => (files' = files /\ dirs' = dirs)]_vars

\* a second call that has run to its end over a tree the first call changed
\* and that still holds files for the walk to list
C6_Witness ==
    /\ run = 2
    /\ pc = "done"
    /\ Printed("moved")
    /\ files # tree0
    /\ \E p \in DOMAIN files : ~InExtensionDir(p)

----------------------------------------------------------------------------
(* C7 *)

\* C7: two walked files with the same filename and the same content, the
\* only two of that filename, in a tree whose bucket and quarantine for the
\* extension are empty: after the run one of them has been deleted, the copy
\* that survives is in the bucket under the original filename, and neither
\* is anywhere else.
C7_ExactDuplicateEliminated ==
    FirstRunDone =>
        \A p, q \in Walked0 :
            ( /\ p # q
              /\ basename(p) = basename(q)
              /\ Qualifies(basename(p))
              /\ SameName(basename(p)) = {p, q}
              /\ NothingOrganized(basename(p))
              /\ tree0[p] = tree0[q] ) =>
                LET kept == join(Bucket(basename(p)), basename(p)) IN
                /\ kept \in DOMAIN files
                /\ files[kept] = tree0[p]
                /\ \E r \in {p, q} : \E i \in LinesOf(r) : out[i].kind \in Removals
                /\ \A r \in {p, q} :
                    /\ r \notin DOMAIN files
                    /\ LinesOf(r) # {}
                    /\ \A i \in LinesOf(r) :
                        \/ out[i].kind \in Removals
                        \/ out[i].kind = "moved" /\ out[i].dst = kept

----------------------------------------------------------------------------
(* C8 *)

\* C8: the walked files of one filename, two or more with pairwise distinct
\* sizes, in a tree whose bucket and quarantine for the extension are empty:
\* after the run each is in the bucket of the extension, under names that
\* differ from one another, and none was deleted or quarantined.
C8_DistinctSizesGetDistinctNames ==
    FirstRunDone =>
        \A f \in Walked0 :
            LET G == SameName(basename(f)) IN
            ( /\ Qualifies(basename(f))
              /\ NothingOrganized(basename(f))
              /\ Cardinality(G) >= 2
              /\ \A p, q \in G : p # q => Len(tree0[p]) # Len(tree0[q]) ) =>
                /\ \A p \in G :
                    /\ Cardinality(LinesOf(p)) = 1
                    /\ \A i \in LinesOf(p) :
                        /\ out[i].kind \in {"moved", "renamed"}
                        /\ dirname(out[i].dst) = Bucket(basename(f))
                        /\ out[i].dst \in DOMAIN files
                        /\ files[out[i].dst] = tree0[p]
                /\ \A p, q \in G : \A i \in LinesOf(p) : \A j \in LinesOf(q) :
                    p # q => out[i].dst # out[j].dst

----------------------------------------------------------------------------
(* C9 *)

\* three walked files with one filename, one size and three contents
Triples ==
    {G \in SUBSET Walked0 :
        /\ Cardinality(G) = 3
        /\ \A p, q \in G :
            /\ basename(p) = basename(q)
            /\ Len(tree0[p]) = Len(tree0[q])
            /\ p # q => tree0[p] # tree0[q]}

FilenameOf(G) == basename(CHOOSE p \in G : TRUE)

InQuarantine(p) ==
    \E i \in LinesOf(p) :
        /\ out[i].kind = "quarantined"
        /\ dirname(out[i].dst) = Quarantine(basename(p))
        /\ out[i].dst \in DOMAIN files
        /\ files[out[i].dst] = tree0[p]

\* C9 as stated: after the run all three files of such a triple are three
\* files of the quarantine directory Extension_EXISTING/Extension_<EXT>.
C9_AllThreeQuarantined ==
    FirstRunDone =>
        \A G \in Triples : Qualifies(FilenameOf(G)) => \A p \in G : InQuarantine(p)

\* the tree holds no other file of the triple's extension, inside or outside
\* the Extension_ directories
AloneInExtension(G) ==
    \A p \in DOMAIN tree0 :
        p \notin G =>
            /\ HasNoDot(basename(p)) \/
                   upper(Suffix(basename(p))) # upper(Suffix(FilenameOf(G)))
            /\ dirname(p) \notin {Bucket(FilenameOf(G)), Quarantine(FilenameOf(G))}

\* C9 as amended: when the triple's files are the only files of their
\* extension, then after the run the one processed first is in the bucket
\* under the original filename and the other two are two files of the
\* quarantine directory, each with its content; when the loop passes the
\* filename over, the three files are where they were.
C9_OneInBucketTwoQuarantined ==
    FirstRunDone =>
        \A G \in Triples :
            AloneInExtension(G) =>
                LET filename == FilenameOf(G)
                    kept == join(Bucket(filename), filename)
                IN  IF is_skipped(filename)
                    THEN \A p \in G : p \in DOMAIN files /\ files[p] = tree0[p]
                    ELSE \E first \in G :
                        /\ \E i \in LinesOf(first) :
                            /\ out[i].kind = "moved"
                            /\ out[i].dst = kept
                            /\ \A p \in G \ {first} : \A j \in LinesOf(p) : i < j
                        /\ kept \in DOMAIN files
                        /\ files[kept] = tree0[first]
                        /\ \A p \in G \ {first} : InQuarantine(p)
                        /\ \A p \in G : p \notin DOMAIN files

\* a completed run over three a.txt of one size and three contents: one in
\* the bucket, two in the quarantine
C9_Witness ==
    /\ FirstRunDone
    /\ \E G \in Triples : AloneInExtension(G) /\ FilenameOf(G) = a_txt
    /\ <<Extension_TXT, a_txt>> \in DOMAIN files
    /\ <<ExtensionExisting, Extension_TXT, a_txt>> \in DOMAIN files
    /\ <<ExtensionExisting, Extension_TXT, a_1_txt>> \in DOMAIN files

----------------------------------------------------------------------------
(* C10 *)

\* C10 as stated: after the run the content of every file of the initial
\* tree is at exactly one path.
C10_ContentAtExactlyOnePath ==
    FirstRunDone => \A p \in DOMAIN tree0 : Copies(files, tree0[p]) = 1

\* C10 as amended: in every state of a run, and so after it, the content of
\* every file of the initial tree is at one path or more, and at no more
\* paths than held it before the run.
C10_ContentKeptNotMultiplied ==
    \A p \in DOMAIN tree0 :
        /\ Copies(files, tree0[p]) >= 1
        /\ Copies(files, tree0[p]) <= Copies(tree0, tree0[p])

\* a completed run after which a content that two files started with is
\* still at two paths, both files having been moved
C10_Witness ==
    /\ FirstRunDone
    /\ \E p, q \in Walked0 :
        /\ p # q
        /\ tree0[p] = tree0[q]
        /\ p \notin DOMAIN files
        /\ q \notin DOMAIN files
        /\ Copies(files, tree0[p]) = 2

----------------------------------------------------------------------------
(* C11 *)

\* base_dir names no directory that can be listed
BaseInvalid == base_dir \notin dirs

\* C11: when the base directory is invalid or cannot be listed, the run
\* reports the error and ends before any traversal: no file is visited, no
\* directory is made, the success summary of line 123 is not printed, and a
\* run that is over has reported an error.
C11_InvalidBaseIsFatal ==
    BaseInvalid =>
        /\ files = tree0
        /\ dirs = {}
        /\ todo = {}
        /\ ~Printed("done")
        /\ RunOver => Printed("error")

----------------------------------------------------------------------------
(* C12 *)

\* the initial tree holds no 'Extension_' directory
NoExtensionDirs == DOMAIN tree0 = Walked0

\* where a source file was moved to: its place in a bucket or a quarantine
PlacesOf(path) == {out[i].dst : i \in {j \in LinesOf(path) : out[j].dst # << >>}}

\* C12: starting from a tree with no 'Extension_' directory, after a run no
\* two files that were moved to a bucket or a quarantine directory, under the
\* original or a numbered name, and that came from source files with the same
\* filename have the same content.
C12_SameNameDuplicatesRemoved ==
    (FirstRunDone /\ NoExtensionDirs) =>
        \A p, q \in Walked0 :
            (p # q /\ basename(p) = basename(q)) =>
                \A d \in PlacesOf(p) : \A e \in PlacesOf(q) :
                    (d \in DOMAIN files /\ e \in DOMAIN files) => files[d] # files[e]

----------------------------------------------------------------------------
(* C13 *)

\* the step is one iteration of the loop of line 40 on filename that ends
\* normally
Iterates(filename) ==
    /\ pc = "files"
    /\ pc' = "files"
    /\ filename \in todo
    /\ todo' = todo \ {filename}

\* the step prints exactly one line, of this kind, about the file
Prints(kind, path) ==
    /\ Len(out') = Len(out) + 1
    /\ out'[Len(out')].kind = kind
    /\ out'[Len(out')].src = path

\* the step moves the file to a path that was free, and changes nothing else
MovesTo(F, target) ==
    /\ target \notin DOMAIN files
    /\ DOMAIN files' = (DOMAIN files \ {F}) \cup {target}
    /\ files'[target] = files[F]
    /\ \A p \in DOMAIN files \ {F} : files'[p] = files[p]
    /\ out'[Len(out')].dst = target

\* the step deletes the file and changes nothing else
Removes(F) ==
    /\ DOMAIN files' = DOMAIN files \ {F}
    /\ \A p \in DOMAIN files' : files'[p] = files[p]

\* the cases of the resolution, told from the state the step starts in
NoConflict(F, D) == D \notin DOMAIN files
SizeMismatch(F, D) == D \in DOMAIN files /\ Len(files[D]) # Len(files[F])
ExactDuplicate(F, D) ==
    D \in DOMAIN files /\ Len(files[D]) = Len(files[F]) /\ files[D] = files[F]
Conflict(F, D) ==
    D \in DOMAIN files /\ Len(files[D]) = Len(files[F]) /\ files[D] # files[F]

\* cases 1 to 3 as the claim gives them
FirstThreeCases(F, D, filename) ==
    /\ NoConflict(F, D) => Prints("moved", F) /\ MovesTo(F, D)
    /\ SizeMismatch(F, D) =>
        /\ Prints("renamed", F)
        /\ \E target \in DOMAIN files' :
            /\ dirname(target) = Bucket(filename)
            /\ target # D
            /\ MovesTo(F, target)
    /\ ExactDuplicate(F, D) => Prints("removed", F) /\ Removes(F)
    /\ D \in DOMAIN files => D \in DOMAIN files' /\ files'[D] = files[D]

GoesToQuarantine(F, filename) ==
    /\ Prints("quarantined", F)
    /\ \E target \in DOMAIN files' :
        /\ dirname(target) = Quarantine(filename)
        /\ MovesTo(F, target)

\* the scenario a.txt = "X", sub/a.txt = "Y"
ScenarioXY ==
    (FirstRunDone /\ tree0 = (<<a_txt>> :> X) @@ (<<sub, a_txt>> :> Y)) =>
        files = (<<Extension_TXT, a_txt>> :> X) @@
                (<<ExtensionExisting, Extension_TXT, a_txt>> :> Y)

CaseSelectionAsStated ==
    \A filename \in todo :
        (Iterates(filename) /\ Qualifies(filename)) =>
            LET F == join(root, filename)
                D == join(Bucket(filename), filename)
            IN  /\ FirstThreeCases(F, D, filename)
                /\ Conflict(F, D) => GoesToQuarantine(F, filename)

\* C13: every qualifying file gets exactly one terminal action: moved to D
\* when D is absent, moved into the bucket under another name when D has
\* another size, deleted when D has its size and hash, moved into the
\* quarantine when D has its size and another hash; D is never changed; and
\* a.txt = "X", sub/a.txt = "Y" ends as X in the bucket, Y in the quarantine.
C13_CaseSelection == [][CaseSelectionAsStated]_vars /\ []ScenarioXY

----------------------------------------------------------------------------
(* C14 *)

\* the name before its last dot, and slot n of a file name in a directory:
\* <base_name>_<n>.<extension in lower case>
BaseName(filename) == SubSeq(filename, 1, rfind_dot(filename) - 1)
Slot(dir, filename, n) ==
    join(dir, BaseName(filename) \o <<"_">> \o str(n) \o <<".">> \o
              lower(Suffix(filename)))
Slots == 1 .. (MaxFiles + 3)

\* n is the lowest slot of the file name that is free in the directory
LowestFree(dir, filename, n) ==
    /\ Slot(dir, filename, n) \notin DOMAIN files
    /\ \A k \in 1 .. (n - 1) : Slot(dir, filename, k) \in DOMAIN files

RenameAsStated ==
    \A filename \in todo :
        LET F == join(root, filename)
            D == join(Bucket(filename), filename)
        IN  (Iterates(filename) /\ Qualifies(filename) /\ SizeMismatch(F, D)) =>
                \E n \in Slots :
                    /\ LowestFree(Bucket(filename), filename, n)
                    /\ MovesTo(F, Slot(Bucket(filename), filename, n))
                    /\ Prints("renamed", F)

\* the scenario a.txt = "X" (1 byte), sub/a.txt = "XX" (2 bytes)
ScenarioSizes ==
    (FirstRunDone /\ tree0 = (<<a_txt>> :> X) @@ (<<sub, a_txt>> :> XX)) =>
        files = (<<Extension_TXT, a_txt>> :> X) @@
                (<<Extension_TXT, a_1_txt>> :> XX)

\* C14: when D exists with a size other than F's, F is moved to
\* Extension_<EXT>/<base_name>_<N>.<ext in lower case>, N the lowest positive
\* integer whose path is free at that moment; a one-byte a.txt and a two-byte
\* sub/a.txt end as a.txt and a_1.txt in the bucket, nothing quarantined.
C14_RenameToLowestFreeSlot == [][RenameAsStated]_vars /\ []ScenarioSizes

\* a run that renamed twice: slot 1 was taken, so the second file went to
\* slot 2
C14_Witness ==
    /\ FirstRunDone
    /\ Printed("renamed")
    /\ Slot(<<Extension_TXT>>, a_txt, 2) \in DOMAIN files
----------------------------------------------------------------------------
(* C15 *)

\* before the first free slot of the quarantine directory, an occupied slot
\* holds the content of F
EqualBeforeFirstFree(F, filename) ==
    \E n \in Slots :
        /\ LowestFree(Quarantine(filename), filename, n)
        /\ \E k \in 1 .. (n - 1) :
            files[Slot(Quarantine(filename), filename, k)] = files[F]

QuarantineScanAsStated ==
    \A filename \in todo :
        LET F == join(root, filename)
            D == join(Bucket(filename), filename)
            direct == join(Quarantine(filename), filename)
        IN  (Iterates(filename) /\ Qualifies(filename) /\ Conflict(F, D)) =>
                IF direct \notin DOMAIN files
                THEN Prints("quarantined", F) /\ MovesTo(F, direct)
                ELSE IF EqualBeforeFirstFree(F, filename)
                     THEN Prints("quarantine_removed", F) /\ Removes(F)
                     ELSE /\ Prints("quarantined", F)
                          /\ \E n \in Slots :
                              /\ LowestFree(Quarantine(filename), filename, n)
                              /\ MovesTo(F, Slot(Quarantine(filename), filename, n))

\* a deletion of the scan has an equal file in a numbered slot of the
\* quarantine directory
ScanDeletionHasEqual ==
    \A filename \in todo :
        LET F == join(root, filename)
        IN  (Iterates(filename) /\ Prints("quarantine_removed", F)) =>
                \E n \in Slots :
                    LET q == Slot(Quarantine(filename), filename, n)
                    IN  q \in DOMAIN files /\ files[q] = files[F] /\ q \in DOMAIN files'

\* C15: with D of the same size and other content, F is moved to the direct
\* quarantine path when that is free; otherwise the numbered slots are
\* examined from 1 upwards and F is deleted if and only if an occupied slot
\* before the first free one has its hash, else F is moved to the first free
\* slot; the scan deletes nothing without such an equal quarantined file.
C15_QuarantineScan == [][QuarantineScanAsStated /\ ScanDeletionHasEqual]_vars

\* a run whose scan deleted one file and moved another to a numbered slot
C15_Witness ==
    /\ FirstRunDone
    /\ Printed("quarantine_removed")
    /\ \E i \in DOMAIN out :
        /\ out[i].kind = "quarantined"
        /\ \E n \in Slots : out[i].dst = Slot(Quarantine(a_txt), a_txt, n)
----------------------------------------------------------------------------
(* C16 *)

\* the steps of a call that meets no I/O error on a file
Step == ListDir \/ ListDirError \/ ProcessFile \/ Descend \/ Finish

\* the directories the walk still has to list below and including top:
\* those reached from top through names that do not start with Extension_
Under(top) ==
    {top} \cup
    {d \in dirs :
        /\ Len(d) > Len(top)
        /\ SubSeq(d, 1, Len(top)) = top
        /\ \A k \in (Len(top) + 1) .. Len(d) : ~startswith(d[k], ExtensionPrefix)}
Pending ==
    UNION ({Under(stack[i]) : i \in DOMAIN stack} \cup
           {Under(join(root, s)) : s \in subs})

\* the steps a directory still costs: list it, iterate each file, descend
FilesIn(fs, top) == {p \in DOMAIN fs : dirname(p) = top}
RECURSIVE Total(_, _)
Total(fs, tops) ==
    IF tops = {} THEN 0
    ELSE LET top == CHOOSE t \in tops : TRUE
         IN  2 + Cardinality(FilesIn(fs, top)) + Total(fs, tops \ {top})

\* the steps left in the call
Position(at) == IF at = "files" THEN 2 ELSE IF at = "walk" THEN 1 ELSE 0
Work(fs, tops, entries, at) == Total(fs, tops) + Cardinality(entries) + Position(at)

\* every step of a call uses up work: nothing the call creates is added to
\* what the walk has to do
WorkDecreases ==
    run' = run =>
        Work(files', Pending', todo', pc') < Work(files, Pending, todo, pc)

\* both scans stop within one more value of N than the directory has files
ScansAreBounded ==
    pc = "files" =>
        \A filename \in todo :
            Qualifies(filename) =>
                /\ \E n \in 1 .. (Cardinality(FilesIn(files, Bucket(filename))) + 1) :
                    LowestFree(Bucket(filename), filename, n)
                /\ \E n \in 1 .. (Cardinality(FilesIn(files, Quarantine(filename))) + 1) :
                    LowestFree(Quarantine(filename), filename, n)

\* C16: on a finite tree a call that meets no I/O error terminates: every
\* step uses up work that only the initial tree provides (directories the
\* call creates add none), the two scans stop within finitely many values of
\* N, and no behaviour holds infinitely many steps of a call.
C16_Termination ==
    /\ [][WorkDecreases]_vars
    /\ []ScansAreBounded
    /\ <>[][~Step]_vars

\* a call that created a bucket and a quarantine directory in a tree with
\* subdirectories, and returned
C16_Witness ==
    /\ FirstRunDone
    /\ DOMAIN tree0 = Walked0
    /\ \E p \in DOMAIN tree0 : Len(p) > 1
    /\ Printed("renamed")
    /\ Printed("quarantined")
----------------------------------------------------------------------------
(* C17 *)

\* C17: the hash of F, and of D, is computed only after D has been found to
\* exist with the size of F: an iteration that takes the no-conflict case or
\* the size-mismatch case hashes no file.
C17_HashingIsLazy ==
    pc = "files" =>
        \A filename \in todo :
            LET F == join(root, filename)
                D == join(Bucket(filename), filename)
            IN  (Qualifies(filename) /\ (NoConflict(F, D) \/ SizeMismatch(F, D))) =>
                    hashed_files(files, dirs, root, filename) = {}
----------------------------------------------------------------------------
(* C18 *)

\* A reference call: organize_by_extension run to its end on a tree, every
\* directory listing taken in one fixed order.
Listing(S) == CHOOSE order \in Orders(S) : TRUE

\* the loop of line 40 over the entries of one directory, in sequence
RECURSIVE iterate_files(_, _, _, _)
iterate_files(fs, ds, rt, names) ==
    IF names = << >> THEN Effect(fs, ds, << >>)
    ELSE LET done == organize_file(fs, ds, rt, Head(names))
         IN  iterate_files(done.files, done.dirs, rt, Tail(names))

\* the loop of line 36 over the directories waiting in stk
RECURSIVE walk_from(_, _, _)
walk_from(fs, ds, stk) ==
    IF stk = << >> THEN fs
    ELSE IF Head(stk) \notin ds THEN walk_from(fs, ds, Tail(stk))
    ELSE LET top == Head(stk)
             names == Listing(listed_files(fs, top))
             kept == Listing({d \in listed_dirs(ds, top) : keep_dir(d)})
             done == iterate_files(fs, ds, top, names)
         IN  walk_from(done.files, done.dirs,
                       [i \in DOMAIN kept |-> join(top, kept[i])] \o Tail(stk))

\* the tree the reference call leaves of the initial tree
Reference == walk_from(tree0, {base_dir} \cup Ancestors(DOMAIN tree0), <<base_dir>>)

Contents == {X, Y, Z, XX}
OrganizedDirs(fs) == {dirname(p) : p \in {q \in DOMAIN fs : InExtensionDir(q)}}
Count(fs, dir, content) == Cardinality({p \in FilesIn(fs, dir) : fs[p] = content})

\* the same number of files, and in every bucket and quarantine directory
\* the same multiset of contents
SameMultisets(fs, gs) ==
    /\ Cardinality(DOMAIN fs) = Cardinality(DOMAIN gs)
    /\ \A dir \in OrganizedDirs(fs) \cup OrganizedDirs(gs) :
        \A content \in Contents : Count(fs, dir, content) = Count(gs, dir, content)

\* C18 as stated: whatever order the listings come in, the call ends with the
\* same number of surviving files and the same multiset of contents in each
\* bucket directory and in each quarantine directory.
C18_SameResultInAnyOrder ==
    (FirstRunDone /\ base_dir \in dirs) => SameMultisets(files, Reference)

\* the contents held for one extension, bucket and quarantine together
ExtensionName(path) == IF path[1] = ExtensionExisting THEN path[2] ELSE path[1]
Held(fs, name) ==
    {fs[p] : p \in {q \in DOMAIN fs :
        /\ Len(q) > 1
        /\ startswith(q[1], ExtensionPrefix)
        /\ ExtensionName(q) = name}}
Unorganized(fs) == {p \in DOMAIN fs : ~startswith(p[1], ExtensionPrefix)}

SameContents(fs, gs) ==
    /\ Unorganized(fs) = Unorganized(gs)
    /\ \A p \in Unorganized(fs) : fs[p] = gs[p]
    /\ \A p \in DOMAIN fs \cup DOMAIN gs :
        startswith(p[1], ExtensionPrefix) =>
            Held(fs, ExtensionName(p)) = Held(gs, ExtensionName(p))

\* C18 as amended: whatever order the listings come in, the call leaves the
\* same files in place and, for every extension, the same set of contents in
\* its bucket and quarantine directories taken together; how many copies of
\* a content survive, and which of them is in the bucket, depends on the
\* order.
C18_SameContentsInAnyOrder ==
    (FirstRunDone /\ base_dir \in dirs) => SameContents(files, Reference)

\* a call whose listing order changed the outcome
C18_Witness ==
    /\ FirstRunDone
    /\ base_dir \in dirs
    /\ ~SameMultisets(files, Reference)
    /\ Cardinality(DOMAIN files) # Cardinality(DOMAIN Reference)
----------------------------------------------------------------------------
(* C19 *)

\* the kinds of printed line that report a shutil.move
Moves == {"moved", "renamed", "quarantined"}

\* the move a step reports went to a path that named nothing
MoveTargetIsFree ==
    (Len(out') = Len(out) + 1 /\ out'[Len(out')].kind \in Moves) =>
        LET target == out'[Len(out')].dst
            F == out'[Len(out')].src
        IN  /\ target \notin DOMAIN files
            /\ target \notin dirs
            /\ target \in DOMAIN files'
            /\ files'[target] = files[F]

\* a path that keeps a file keeps its content
NothingReplaced ==
    \A p \in DOMAIN files \cap DOMAIN files' : files'[p] = files[p]

\* no two moves have the same target
TargetsDiffer ==
    \A i, j \in DOMAIN out :
        (i # j /\ out[i].kind \in Moves /\ out[j].kind \in Moves) =>
            out[i].dst # out[j].dst

\* C19: every move of a run (to D, to a numbered bucket name, to the direct
\* quarantine path, to a numbered quarantine name) goes to a path that did
\* not exist just before it, so no file ever has its content replaced and no
\* two source files end at the same path.
C19_NoOverwrite == [][MoveTargetIsFree /\ NothingReplaced]_vars /\ []TargetsDiffer

\* a call that moved to D, to a numbered bucket name and to the quarantine
C19_Witness ==
    /\ FirstRunDone
    /\ Printed("moved")
    /\ Printed("renamed")
    /\ Printed("quarantined")
    /\ \E p \in DOMAIN tree0 : InExtensionDir(p)

====
